---- MODULE Spec2Model ----
(***************************************************************************)
(* Model of the Renovate config editor: the URL resolver (UrlInput.vue),   *)
(* the host view (HomeView.vue) and the form synchronizer                  *)
(* (RenovateEditor.vue).                                                   *)
(*                                                                         *)
(* JavaScript values are modelled as trees of nodes of one shape,          *)
(*   [t |-> type tag, s |-> scalar text, kids |-> members or elements],    *)
(* an object keeping its members in insertion order, as the engine does.   *)
(* Text (the raw-text view, a response body) is modelled as its sequence   *)
(* of JSON tokens: white space, which JSON.parse skips, is left out.       *)
(***************************************************************************)
EXTENDS Integers, Sequences, FiniteSets, TLC

(***************************************************************************)
(* JavaScript values                                                       *)
(***************************************************************************)
JUndef == [t |-> "undefined", s |-> "", kids |-> <<>>]

JNull == [t |-> "null", s |-> "", kids |-> <<>>]

JTrue == [t |-> "boolean", s |-> "true", kids |-> <<>>]

JFalse == [t |-> "boolean", s |-> "false", kids |-> <<>>]

JStr(x) == [t |-> "string", s |-> x, kids |-> <<>>]

JNum(x) == [t |-> "number", s |-> x, kids |-> <<>>]

Kid(key, val) == [k |-> key, v |-> val]

JObj(members) == [t |-> "object", s |-> "", kids |-> members]

\* an array of the given elements
JArr(elems) ==
  [t |-> "array", s |-> "", kids |-> [i \in 1..Len(elems) |-> Kid("", elems[i])]]

\* the elements of an array, as a sequence of values
Elems(a) == [i \in 1..Len(a.kids) |-> a.kids[i].v]

IsObject(n) == n.t = "object"

IsArray(n) == n.t = "array"

\* ToBoolean: what `if (x)`, `x || y` and `!x` test
Truthy(n) ==
  CASE n.t = "undefined" -> FALSE
    [] n.t = "null" -> FALSE
    [] n.t = "boolean" -> n.s = "true"
    [] n.t = "string" -> n.s # ""
    [] n.t = "number" -> n.s # "0"
    [] OTHER -> TRUE

\* x || y
Or(x, y) == IF Truthy(x) THEN x ELSE y

SeqFilter(q, Keep(_)) ==
  LET F[i \in 0..Len(q)] ==
        IF i = 0 THEN <<>>
        ELSE IF Keep(q[i]) THEN Append(F[i - 1], q[i]) ELSE F[i - 1]
  IN F[Len(q)]

KeyIndex(o, key) ==
  LET hits == {i \in 1..Len(o.kids) : o.kids[i].k = key}
  IN IF hits = {} THEN 0 ELSE CHOOSE i \in hits : \A j \in hits : i <= j

\* key in o (an own property, whatever its value)
Has(o, key) == IsObject(o) /\ KeyIndex(o, key) # 0

\* o[key]: undefined when o has no such property
Get(o, key) == IF Has(o, key) THEN o.kids[KeyIndex(o, key)].v ELSE JUndef

\* o[key] = val: an existing property keeps its place, a new one goes last
Put(o, key, val) ==
  IF Has(o, key)
  THEN [o EXCEPT !.kids[KeyIndex(o, key)] = Kid(key, val)]
  ELSE [o EXCEPT !.kids = Append(@, Kid(key, val))]

\* delete o[key]
Delete(o, key) ==
  LET NotKey(m) == m.k # key
  IN [o EXCEPT !.kids = SeqFilter(@, NotKey)]

\* Object.keys(o)
Keys(o) == [i \in 1..Len(o.kids) |-> o.kids[i].k]

\* arr.push(val)
Push(a, val) == [a EXCEPT !.kids = Append(@, Kid("", val))]

\* arr.splice(index, 1): a start at or past the end removes nothing,
\* a negative start counts from the end
Splice1(a, index) ==
  LET n == Len(a.kids)
      at == IF index < 0 THEN (IF n + index < 0 THEN 0 ELSE n + index) ELSE index
  IN IF at >= n THEN a
     ELSE [a EXCEPT !.kids = [i \in 1..(n - 1) |-> IF i <= at THEN @[i] ELSE @[i + 1]]]

(***************************************************************************)
(* JSON text: tokens, JSON.stringify, JSON.parse and JSON5.parse           *)
(***************************************************************************)
Tok(kind, text) == [k |-> kind, s |-> text]

P(c) == Tok("punct", c)

RECURSIVE StringifyKids(_, _, _)
RECURSIVE Stringify(_)
\* JSON.stringify(n): a member whose value is undefined is left out of an
\* object, an undefined element of an array is written as null
Stringify(n) ==
  CASE n.t = "string" -> <<Tok("string", n.s)>>
    [] n.t = "number" -> <<Tok("number", n.s)>>
    [] n.t = "boolean" -> <<Tok("literal", n.s)>>
    [] n.t = "array" -> <<P("[")>> \o StringifyKids(n.kids, FALSE, TRUE) \o <<P("]")>>
    [] n.t = "object" -> <<P("{")>> \o StringifyKids(n.kids, TRUE, TRUE) \o <<P("}")>>
    [] OTHER -> <<Tok("literal", "null")>>

StringifyKids(kids, isObj, first) ==
  IF kids = <<>> THEN <<>>
  ELSE IF isObj /\ Head(kids).v.t = "undefined"
       THEN StringifyKids(Tail(kids), isObj, first)
       ELSE (IF first THEN <<>> ELSE <<P(",")>>)
            \o (IF isObj THEN <<Tok("string", Head(kids).k), P(":")>> ELSE <<>>)
            \o Stringify(Head(kids).v)
            \o StringifyKids(Tail(kids), isObj, FALSE)

ParseFail == [ok |-> FALSE, v |-> JUndef, n |-> 0]

RECURSIVE ParseValue(_, _, _)
RECURSIVE ParseMembers(_, _, _, _, _)
RECURSIVE ParseElements(_, _, _, _, _)
\* one value starting at token i; n is the index after it.  relaxed is
\* JSON5's leniency: a comma may precede the closing bracket.
ParseValue(toks, i, relaxed) ==
  IF i > Len(toks) THEN ParseFail
  ELSE LET tk == toks[i] IN
    CASE tk.k = "string" -> [ok |-> TRUE, v |-> JStr(tk.s), n |-> i + 1]
      [] tk.k = "number" -> [ok |-> TRUE, v |-> JNum(tk.s), n |-> i + 1]
      [] tk.k = "literal" ->
           [ok |-> TRUE,
            v |-> IF tk.s = "null" THEN JNull ELSE IF tk.s = "true" THEN JTrue ELSE JFalse,
            n |-> i + 1]
      [] tk = P("{") -> ParseMembers(toks, i + 1, <<>>, FALSE, relaxed)
      [] tk = P("[") -> ParseElements(toks, i + 1, <<>>, FALSE, relaxed)
      [] OTHER -> ParseFail

ParseMembers(toks, i, acc, afterComma, relaxed) ==
  IF i > Len(toks) THEN ParseFail
  ELSE IF toks[i] = P("}")
  THEN IF afterComma /\ ~relaxed THEN ParseFail
       ELSE [ok |-> TRUE, v |-> JObj(acc), n |-> i + 1]
  ELSE IF toks[i].k # "string" \/ i + 1 > Len(toks) THEN ParseFail
  ELSE IF toks[i + 1] # P(":") THEN ParseFail
  ELSE LET r == ParseValue(toks, i + 2, relaxed) IN
    IF ~r.ok \/ r.n > Len(toks) THEN ParseFail
    ELSE LET acc2 == Put(JObj(acc), toks[i].s, r.v).kids IN
      IF toks[r.n] = P(",") THEN ParseMembers(toks, r.n + 1, acc2, TRUE, relaxed)
      ELSE IF toks[r.n] = P("}") THEN [ok |-> TRUE, v |-> JObj(acc2), n |-> r.n + 1]
      ELSE ParseFail

ParseElements(toks, i, acc, afterComma, relaxed) ==
  IF i > Len(toks) THEN ParseFail
  ELSE IF toks[i] = P("]")
  THEN IF afterComma /\ ~relaxed THEN ParseFail
       ELSE [ok |-> TRUE, v |-> JArr(acc), n |-> i + 1]
  ELSE LET r == ParseValue(toks, i, relaxed) IN
    IF ~r.ok \/ r.n > Len(toks) THEN ParseFail
    ELSE IF toks[r.n] = P(",") THEN ParseElements(toks, r.n + 1, Append(acc, r.v), TRUE, relaxed)
    ELSE IF toks[r.n] = P("]") THEN [ok |-> TRUE, v |-> JArr(Append(acc, r.v)), n |-> r.n + 1]
    ELSE ParseFail

\* the whole text is one value
ParseText(toks, relaxed) ==
  LET r == ParseValue(toks, 1, relaxed)
  IN IF r.ok /\ r.n = Len(toks) + 1 THEN r ELSE ParseFail

\* JSON.parse(text) does not throw
CanParse(toks) == ParseText(toks, FALSE).ok

\* JSON.parse(text), where it does not throw
JSONparse(toks) == ParseText(toks, FALSE).v

\* JSON5.parse(text) does not throw
CanParse5(toks) == ParseText(toks, TRUE).ok

\* JSON5.parse(text), where it does not throw
JSON5parse(toks) == ParseText(toks, TRUE).v

\* JSON.parse(JSON.stringify(x)), the deep copy the code takes
DeepCopy(x) == JSONparse(Stringify(x))

(***************************************************************************)
(* RenovateEditor.vue: Load (the watcher on props.config) and Export       *)
(* (cleanConfig), as functions of the document                             *)
(***************************************************************************)
\* the rule fields the editor knows, in the order cleanConfig lists them
RuleFields ==
  <<"groupName", "matchManagers", "matchDatasources", "matchFileNames",
    "matchUpdateTypes", "matchDepTypes", "matchCurrentVersion",
    "automerge", "automergeType">>

IsRuleField(key) == \E i \in 1..Len(RuleFields) : RuleFields[i] = key

\* Spread the other way round, `{ ...rule, groupName: rule.groupName || '' }`:
\* the keys of base overwrite those of obj
SpreadBaseWins(base, obj) ==
  LET F[i \in 0..Len(base.kids)] ==
        IF i = 0 THEN obj ELSE Put(F[i - 1], base.kids[i].k, base.kids[i].v)
  IN F[Len(base.kids)]

\* { ...base, ...obj }: obj's own properties assigned in their order
Spread(base, obj) ==
  LET F[i \in 0..Len(obj.kids)] ==
        IF i = 0 THEN base ELSE Put(F[i - 1], obj.kids[i].k, obj.kids[i].v)
  IN F[Len(obj.kids)]

\* NormalizeRule with automerge defaulted like its neighbours: `rule.automerge || false`
NormalizeRuleDefaultsAutomerge(rule) ==
  Spread(
    JObj(<<Kid("groupName", Or(Get(rule, "groupName"), JStr(""))),
           Kid("matchManagers", Or(Get(rule, "matchManagers"), JArr(<<>>))),
           Kid("matchDatasources", Or(Get(rule, "matchDatasources"), JArr(<<>>))),
           Kid("matchFileNames", Or(Get(rule, "matchFileNames"), JArr(<<>>))),
           Kid("matchUpdateTypes", Or(Get(rule, "matchUpdateTypes"), JArr(<<>>))),
           Kid("matchDepTypes", Or(Get(rule, "matchDepTypes"), JArr(<<>>))),
           Kid("matchCurrentVersion", Or(Get(rule, "matchCurrentVersion"), JStr(""))),
           Kid("automerge", Or(Get(rule, "automerge"), JFalse)),
           Kid("automergeType", Or(Get(rule, "automergeType"), JStr("branch")))>>),
    rule)

\* the object literal of the watcher's map callback
NormalizeRule(rule) ==
  Spread(
    JObj(<<Kid("groupName", Or(Get(rule, "groupName"), JStr(""))),
           Kid("matchManagers", Or(Get(rule, "matchManagers"), JArr(<<>>))),
           Kid("matchDatasources", Or(Get(rule, "matchDatasources"), JArr(<<>>))),
           Kid("matchFileNames", Or(Get(rule, "matchFileNames"), JArr(<<>>))),
           Kid("matchUpdateTypes", Or(Get(rule, "matchUpdateTypes"), JArr(<<>>))),
           Kid("matchDepTypes", Or(Get(rule, "matchDepTypes"), JArr(<<>>))),
           Kid("matchCurrentVersion", Or(Get(rule, "matchCurrentVersion"), JStr(""))),
           Kid("automerge", Get(rule, "automerge")),
           Kid("automergeType", Or(Get(rule, "automergeType"), JStr("branch")))>>),
    rule)

\* arr.map(f) on an array value
MapArr(a, F(_)) == JArr([i \in 1..Len(a.kids) |-> F(a.kids[i].v)])

\* the watcher's callback up to updateJsonText: the new working document
\* LoadAliases with the copy left out: `editableConfig.value = newConfig`
LoadAliasesAssigned(newConfig) == IsObject(newConfig) \/ IsArray(newConfig)

\* whether the working document is the very object handed in: never, since
\* JSON.parse(JSON.stringify(newConfig)) builds a value of its own
LoadAliases(newConfig) == FALSE

\* LoadDoc mapping over `packageRules || []`: the key is always written
LoadDocAlwaysRules(newConfig) ==
  LET copy == DeepCopy(newConfig)
      rules == Or(Get(copy, "packageRules"), JArr(<<>>))
  IN Put(copy, "packageRules", MapArr(rules, NormalizeRule))

LoadDoc(newConfig) ==
  LET copy == DeepCopy(newConfig)
  IN IF Truthy(Get(copy, "packageRules"))
     THEN Put(copy, "packageRules", MapArr(Get(copy, "packageRules"), NormalizeRule))
     ELSE copy

\* cleanArray: drops '', null and undefined
cleanArray(arr) ==
  LET Keep(m) == m.v # JStr("") /\ m.v # JNull /\ m.v # JUndef
  IN [arr EXCEPT !.kids = SeqFilter(@, Keep)]

\* if (rule[key]) cleanedRule[key] = rule[key]
CopyIfTruthy(out, rule, key) ==
  IF Truthy(Get(rule, key)) THEN Put(out, key, Get(rule, key)) ELSE out

\* const xs = cleanArray(rule[key] || []); if (xs.length > 0) cleanedRule[key] = xs
CopyIfNonEmpty(out, rule, key) ==
  LET xs == cleanArray(Or(Get(rule, key), JArr(<<>>)))
  IN IF Len(xs.kids) > 0 THEN Put(out, key, xs) ELSE out

\* if (rule.automerge !== undefined) cleanedRule.automerge = rule.automerge
CopyAutomerge(out, rule) ==
  IF Get(rule, "automerge") # JUndef THEN Put(out, "automerge", Get(rule, "automerge")) ELSE out

\* CopyAutomergeType without the test of automerge
CopyAutomergeTypeAlways(out, rule) ==
  IF Truthy(Get(rule, "automergeType"))
  THEN Put(out, "automergeType", Get(rule, "automergeType"))
  ELSE out

\* if (rule.automerge === true && rule.automergeType) cleanedRule.automergeType = ...
CopyAutomergeType(out, rule) ==
  IF Get(rule, "automerge") = JTrue /\ Truthy(Get(rule, "automergeType"))
  THEN Put(out, "automergeType", Get(rule, "automergeType"))
  ELSE out

\* CopyOtherFields with the test inverted: the other fields are dropped
CopyOtherFieldsDropped(out, rule) == out

\* Object.keys(rule).forEach: every key outside the fixed list is copied
CopyOtherFields(out, rule) ==
  LET F[i \in 0..Len(rule.kids)] ==
        IF i = 0 THEN out
        ELSE IF IsRuleField(rule.kids[i].k) THEN F[i - 1]
        ELSE Put(F[i - 1], rule.kids[i].k, rule.kids[i].v)
  IN F[Len(rule.kids)]

\* the map callback of cleanConfig
CleanRule(rule) ==
  LET r1 == CopyIfTruthy(JObj(<<>>), rule, "groupName")
      r2 == CopyIfNonEmpty(r1, rule, "matchManagers")
      r3 == CopyIfNonEmpty(r2, rule, "matchDatasources")
      r4 == CopyIfNonEmpty(r3, rule, "matchFileNames")
      r5 == CopyIfNonEmpty(r4, rule, "matchUpdateTypes")
      r6 == CopyIfNonEmpty(r5, rule, "matchDepTypes")
      r7 == CopyIfTruthy(r6, rule, "matchCurrentVersion")
      r8 == CopyAutomerge(r7, rule)
      r9 == CopyAutomergeType(r8, rule)
  IN CopyOtherFields(r9, rule)

\* cleanConfig that also runs cleanArray over every top-level list
cleanConfigCleansLists(config) ==
  LET copy == DeepCopy(config)
      cleaned == IF IsObject(copy)
                 THEN [copy EXCEPT !.kids =
                         [i \in 1..Len(@) |->
                            IF IsArray(@[i].v) /\ @[i].k # "packageRules"
                            THEN Kid(@[i].k, cleanArray(@[i].v))
                            ELSE @[i]]]
                 ELSE copy
  IN IF Truthy(Get(cleaned, "packageRules"))
     THEN Put(cleaned, "packageRules", MapArr(Get(cleaned, "packageRules"), CleanRule))
     ELSE cleaned

\* cleanConfig(config): the exported document
cleanConfig(config) ==
  LET cleaned == DeepCopy(config)
  IN IF Truthy(Get(cleaned, "packageRules"))
     THEN Put(cleaned, "packageRules", MapArr(Get(cleaned, "packageRules"), CleanRule))
     ELSE cleaned

(***************************************************************************)
(* RenovateEditor.vue: the structured edits, as functions of the document. *)
(* A key such as 'lockFileMaintenance.schedule' is modelled by its parts,  *)
(* the result of key.split('.'); indexes count from 0 as in the code.      *)
(***************************************************************************)
\* arr[index] = val on an array value (index within the array)
SetAt(a, index, val) == [a EXCEPT !.kids[index + 1] = Kid("", val)]

\* arr[index], undefined outside the array
At(a, index) ==
  IF IsArray(a) /\ index >= 0 /\ index < Len(a.kids) THEN a.kids[index + 1].v ELSE JUndef

\* addToArray giving up where the parent container is absent
addToArrayNoCreate(doc, key) ==
  IF Len(key) > 1
  THEN LET parentVal == Get(doc, key[1])
       IN IF ~IsObject(parentVal) THEN doc
          ELSE LET p2 == IF ~Truthy(Get(parentVal, key[2]))
                         THEN Put(parentVal, key[2], JArr(<<>>))
                         ELSE parentVal
               IN IF IsArray(Get(p2, key[2]))
                  THEN Put(doc, key[1], Put(p2, key[2], Push(Get(p2, key[2]), JStr(""))))
                  ELSE doc
  ELSE IF IsArray(Get(doc, key[1]))
       THEN Put(doc, key[1], Push(Get(doc, key[1]), JStr("")))
       ELSE doc

addToArray(doc, key) ==
  IF Len(key) > 1
  THEN LET parent == key[1]
           child == key[2]
       IN IF parent = "" \/ child = "" THEN doc
          ELSE LET d1 == IF ~Truthy(Get(doc, parent)) THEN Put(doc, parent, JObj(<<>>)) ELSE doc
                   parentVal == Get(d1, parent)
               IN \* a parent that is no object: the property write throws
                  IF ~IsObject(parentVal) THEN d1
                  ELSE LET p2 == IF ~Truthy(Get(parentVal, child))
                                 THEN Put(parentVal, child, JArr(<<>>))
                                 ELSE parentVal
                       IN \* a child that is no array has no push: the call throws
                          IF IsArray(Get(p2, child))
                          THEN Put(d1, parent, Put(p2, child, Push(Get(p2, child), JStr(""))))
                          ELSE Put(d1, parent, p2)
  ELSE LET d1 == IF Get(doc, key[1]) = JUndef THEN Put(doc, key[1], JArr(<<>>)) ELSE doc
       IN IF IsArray(Get(d1, key[1]))
          THEN Put(d1, key[1], Push(Get(d1, key[1]), JStr("")))
          ELSE d1

removeFromArray(doc, key, index) ==
  IF Len(key) > 1
  THEN LET parent == key[1]
           child == key[2]
           parentVal == Get(doc, parent)
       IN IF parent = "" \/ child = "" THEN doc
          ELSE IF Truthy(parentVal) /\ IsArray(Get(parentVal, child))
          THEN Put(doc, parent, Put(parentVal, child, Splice1(Get(parentVal, child), index)))
          ELSE doc
  ELSE IF IsArray(Get(doc, key[1]))
       THEN Put(doc, key[1], Splice1(Get(doc, key[1]), index))
       ELSE doc

\* the rule pushed by addPackageRule: no automerge key
NewRule ==
  JObj(<<Kid("groupName", JStr("")),
         Kid("matchManagers", JArr(<<>>)),
         Kid("matchDatasources", JArr(<<>>)),
         Kid("matchFileNames", JArr(<<>>)),
         Kid("matchUpdateTypes", JArr(<<>>)),
         Kid("matchDepTypes", JArr(<<>>)),
         Kid("matchCurrentVersion", JStr("")),
         Kid("automergeType", JStr("branch"))>>)

addPackageRule(doc) ==
  LET d1 == IF ~Truthy(Get(doc, "packageRules")) THEN Put(doc, "packageRules", JArr(<<>>)) ELSE doc
  IN Put(d1, "packageRules", Push(Get(d1, "packageRules"), NewRule))

\* removePackageRule with the delete count left out, `splice(index)`: the
\* rule at index and every later one go
removePackageRuleTruncates(doc, index) ==
  IF Get(doc, "packageRules") = JUndef \/ Get(doc, "packageRules") = JNull THEN doc
  ELSE LET a == Get(doc, "packageRules")
           n == Len(a.kids)
           at == IF index < 0 THEN (IF n + index < 0 THEN 0 ELSE n + index) ELSE index
       IN IF at >= n THEN doc
          ELSE Put(doc, "packageRules", [a EXCEPT !.kids = SubSeq(@, 1, at)])

\* editableConfig.value.packageRules?.splice(index, 1)
removePackageRule(doc, index) ==
  IF Get(doc, "packageRules") = JUndef \/ Get(doc, "packageRules") = JNull THEN doc
  ELSE Put(doc, "packageRules", Splice1(Get(doc, "packageRules"), index))

\* editableConfig.value.packageRules && editableConfig.value.packageRules[ruleIndex]
RuleAt(doc, ruleIndex) ==
  IF Truthy(Get(doc, "packageRules")) THEN At(Get(doc, "packageRules"), ruleIndex) ELSE JUndef

\* the document with the rule at ruleIndex replaced (the rule is mutated in place)
WithRule(doc, ruleIndex, rule) ==
  Put(doc, "packageRules", SetAt(Get(doc, "packageRules"), ruleIndex, rule))

addToPackageRuleArray(doc, ruleIndex, key) ==
  IF Truthy(RuleAt(doc, ruleIndex))
  THEN LET rule == RuleAt(doc, ruleIndex)
           r1 == IF ~Truthy(Get(rule, key)) THEN Put(rule, key, JArr(<<>>)) ELSE rule
       IN IF IsArray(Get(r1, key))
          THEN WithRule(doc, ruleIndex, Put(r1, key, Push(Get(r1, key), JStr(""))))
          ELSE WithRule(doc, ruleIndex, r1)
  ELSE doc

removeFromPackageRuleArray(doc, ruleIndex, key, itemIndex) ==
  IF Truthy(RuleAt(doc, ruleIndex))
  THEN LET rule == RuleAt(doc, ruleIndex)
       IN IF IsArray(Get(rule, key))
          THEN WithRule(doc, ruleIndex, Put(rule, key, Splice1(Get(rule, key), itemIndex)))
          ELSE doc
  ELSE doc

\* CanAddManager without the test of the existing section: `if (newManager.value)`
CanAddManagerAnyName(doc, manager) == Truthy(JStr(manager))

\* the guard of addManagerConfiguration
CanAddManager(doc, manager) == Truthy(JStr(manager)) /\ ~Truthy(Get(doc, manager))

addManagerConfiguration(doc, manager) ==
  IF CanAddManager(doc, manager)
  THEN Put(doc, manager, JObj(<<Kid("managerFilePatterns", JArr(<<>>))>>))
  ELSE doc

\* @click="delete editableConfig[manager]"
removeManager(doc, manager) == Delete(doc, manager)

\* v-model="rule.<key>": the field of a displayed rule is assigned
setRuleField(doc, ruleIndex, key, val) ==
  WithRule(doc, ruleIndex, Put(RuleAt(doc, ruleIndex), key, val))

\* v-model="rule.<key>[idx]": an element of a displayed rule list is assigned
setRuleArrayItem(doc, ruleIndex, key, idx, val) ==
  LET rule == RuleAt(doc, ruleIndex)
  IN WithRule(doc, ruleIndex, Put(rule, key, SetAt(Get(rule, key), idx, val)))

\* v-model="editableConfig.<key>[index]": an element of a displayed list is assigned
setArrayItem(doc, key, index, val) ==
  IF Len(key) > 1
  THEN LET parentVal == Get(doc, key[1])
       IN Put(doc, key[1], Put(parentVal, key[2], SetAt(Get(parentVal, key[2]), index, val)))
  ELSE Put(doc, key[1], SetAt(Get(doc, key[1]), index, val))

(***************************************************************************)
(* UrlInput.vue: the candidate URLs.  A URL is modelled by its segments,   *)
(* the result of splitting the string at '/'.                              *)
(***************************************************************************)
RENOVATE_CONFIG_PATHS ==
  << <<"renovate.json">>, <<".github", "renovate.json">>, <<".renovaterc.json">>, <<".renovaterc">> >>

branches == <<"main", "master">>

\* url.value.trim() is empty: no segment holds anything but white space
\* IsBlank without the trim: `if (!url.value)`
IsBlankUntrimmed(u) == u = <<>>

IsBlank(u) == \A i \in 1..Len(u) : u[i] \in {"", " "} /\ Len(u) <= 1

\* str.includes(needle), for a needle without '/': some segment holds it
\* (the hosts drawn here either are the needle or do not hold it)
Includes(u, needle) == \E i \in 1..Len(u) : u[i] = needle

\* where /github\.com\/([^\/]+)\/([^\/]+)/ matches first: the index of the host
\* segment, which two non-empty segments follow; 0 when there is no match
GithubMatch(u) ==
  LET hits == {i \in 1..Len(u) : /\ u[i] = "github.com"
                                 /\ i + 2 <= Len(u)
                                 /\ u[i + 1] # ""
                                 /\ u[i + 2] # ""}
  IN IF hits = {} THEN 0 ELSE CHOOSE i \in hits : \A j \in hits : i <= j

\* /github\.com\/[^\/]+\/[^\/]+\/blob\// matches: 'blob' follows the repository
\* segment and a '/' follows it
BlobMatch(u) ==
  \E i \in 1..Len(u) : /\ u[i] = "github.com"
                       /\ i + 4 <= Len(u)
                       /\ u[i + 1] # ""
                       /\ u[i + 2] # ""
                       /\ u[i + 3] = "blob"

\* repo.replace(/\.git$/, '')
StripGit(seg) == IF seg = "widgets.git" THEN "widgets" ELSE seg

\* str.replace(from, to) for a whole segment: the first occurrence only
ReplaceSeg(u, from, to) ==
  LET hits == {i \in 1..Len(u) : u[i] = from}
  IN IF hits = {} THEN u
     ELSE [u EXCEPT ![CHOOSE i \in hits : \A j \in hits : i <= j] = to]

\* str.replace('/blob/', '/'): the first 'blob' segment with a '/' on both sides
DropBlob(u) ==
  LET hits == {i \in 2..(Len(u) - 1) : u[i] = "blob"}
  IN IF hits = {} THEN u
     ELSE LET at == CHOOSE i \in hits : \A j \in hits : i <= j
          IN [i \in 1..(Len(u) - 1) |-> IF i < at THEN u[i] ELSE u[i + 1]]

\* `https://raw.githubusercontent.com/${owner}/${cleanRepo}/${branch}/${path}`
RawUrl(owner, cleanRepo, branch, path) ==
  <<"https:", "", "raw.githubusercontent.com", owner, cleanRepo, branch>> \o path

\* getGitHubRawUrls with its loops nested the other way round: path-major
getGitHubRawUrlsPathMajor(repoUrl) ==
  LET m == GithubMatch(repoUrl)
      nb == Len(branches)
  IN IF m = 0 THEN <<>>
     ELSE [n \in 1..(nb * Len(RENOVATE_CONFIG_PATHS)) |->
             RawUrl(repoUrl[m + 1], StripGit(repoUrl[m + 2]),
                    branches[((n - 1) % nb) + 1],
                    RENOVATE_CONFIG_PATHS[((n - 1) \div nb) + 1])]

getGitHubRawUrls(repoUrl) ==
  LET m == GithubMatch(repoUrl)
      np == Len(RENOVATE_CONFIG_PATHS)
  IN IF m = 0 THEN <<>>
     ELSE [n \in 1..(Len(branches) * np) |->
             RawUrl(repoUrl[m + 1], StripGit(repoUrl[m + 2]),
                    branches[((n - 1) \div np) + 1],
                    RENOVATE_CONFIG_PATHS[((n - 1) % np) + 1])]

\* urlsToTry as loadConfig sets it
CandidateUrls(u) ==
  IF Includes(u, "github.com")
  THEN IF Includes(u, "raw.githubusercontent.com") THEN <<u>>
       ELSE IF BlobMatch(u)
       THEN <<DropBlob(ReplaceSeg(u, "github.com", "raw.githubusercontent.com"))>>
       ELSE getGitHubRawUrls(u)
  ELSE <<u>>

(***************************************************************************)
(* UrlInput.vue: one fetch and the loop over the candidates.  What the     *)
(* network does with a fetch is the environment's choice: the request      *)
(* fails, the response has a status that is not ok, or it is ok with a     *)
(* body.  A message is a sequence of its parts (its concatenation).        *)
(***************************************************************************)
NetworkFailure == [kind |-> "network", status |-> "", body |-> <<>>]

HttpStatus(code) == [kind |-> "status", status |-> code, body |-> <<>>]

OkBody(text) == [kind |-> "ok", status |-> "200", body |-> text]

\* the result of tryFetch; error is '' where the code leaves it undefined
tryFetch(outcome) ==
  CASE outcome.kind = "network" ->
         [success |-> FALSE, data |-> JUndef, error |-> "Failed to fetch"]
    [] outcome.kind = "status" ->
         [success |-> FALSE, data |-> JUndef, error |-> "HTTP " \o outcome.status]
    [] OTHER ->
         IF CanParse5(outcome.body)
         THEN [success |-> TRUE, data |-> JSON5parse(outcome.body), error |-> ""]
         ELSE [success |-> FALSE, data |-> JUndef, error |-> "JSON5: invalid character"]

\* Accepts without the test of the data: `if (result.success)`
AcceptsAnyParsed(result) == result.success

\* if (result.success && result.data): the candidate is taken
Accepts(result) == result.success /\ Truthy(result.data)

\* lastError = result.error || 'Unknown error'
ErrorOf(result) == IF result.error # "" THEN result.error ELSE "Unknown error"

\* NextCandidate stepping over a candidate
NextCandidateSkips(i) == i + 2

\* for (const tryUrl of urlsToTry): the candidate after the one at index i
NextCandidate(i) == i + 1

PathsTried ==
  "renovate.json, .github/renovate.json, .renovaterc.json, .renovaterc"

\* FailureMessage with the test `urlsToTry.length >= 1`
FailureMessageAtLeastOne(urls, lastErr) ==
  IF Len(urls) >= 1
  THEN <<"Error loading config: ",
         "Could not find renovate config in repository. Tried: ", PathsTried>>
  ELSE <<"Error loading config: ", "Failed to load config: ", lastErr>>

\* the message of the Error thrown when no candidate was taken, as emitted
FailureMessage(urls, lastErr) ==
  IF Len(urls) > 1
  THEN <<"Error loading config: ",
         "Could not find renovate config in repository. Tried: ", PathsTried>>
  ELSE <<"Error loading config: ", "Failed to load config: ", lastErr>>

(***************************************************************************)
(* Inputs: what the user may type and what the network may answer          *)
(***************************************************************************)
\* the longest list and the most rules an edit may build
MaxItems == 2

MaxRules == 2

BareRepoUrl == <<"https:", "", "github.com", "acme", "widgets">>

OwnerOnlyUrl == <<"https:", "", "github.com", "acme">>

BlobUrl == <<"https:", "", "github.com", "acme", "widgets", "blob", "main", "renovate.json">>

RawHostUrl == <<"https:", "", "raw.githubusercontent.com", "acme", "widgets", "main", "renovate.json">>

OtherUrl == <<"https:", "", "example.com", "renovate.json">>

UrlInputs == {<<>>, <<" ">>, BareRepoUrl, OwnerOnlyUrl, BlobUrl, RawHostUrl, OtherUrl}

\* a fetched document: a rule with automerge on and a field the editor does not know
FetchedDoc ==
  JObj(<<Kid("labels", JArr(<<JStr("deps")>>)),
         Kid("packageRules",
             JArr(<<JObj(<<Kid("matchManagers", JArr(<<JStr("npm")>>)),
                           Kid("automerge", JTrue),
                           Kid("automergeType", JStr("pr")),
                           Kid("description", JStr("note"))>>)>>))>>)

\* the same text with a comma before the closing brace, which only JSON5 accepts
TrailingCommaBody ==
  LET t == Stringify(FetchedDoc)
  IN SubSeq(t, 1, Len(t) - 1) \o <<P(","), P("}")>>

\* a body cut short
BrokenBody == <<P("{"), Tok("string", "labels"), P(":")>>

Bodies ==
  {Stringify(FetchedDoc), TrailingCommaBody, BrokenBody,
   <<Tok("literal", "null")>>, <<Tok("literal", "false")>>,
   <<Tok("number", "0")>>, <<Tok("string", "")>>}

FetchOutcomes == {NetworkFailure, HttpStatus("404")} \cup {OkBody(b) : b \in Bodies}

\* what the user may type over the raw text: the text with its last token
\* (the closing brace) removed, or one of these
TypedTexts ==
  {<<Tok("literal", "null")>>,
   Stringify(JObj(<<Kid("labels", JArr(<<JStr("typed")>>))>>))}

\* the structured edits of one document: in the application, in the editor
\* with its two views, in the editor's structured view
MaxAppEdits == 2

MaxViewEdits == 1

MaxEdits == 2

\* documents handed to the editor on its own
EmptyDoc == JObj(<<>>)

\* automerge off, an empty string among the managers, a nested list
DisabledRuleDoc ==
  JObj(<<Kid("lockFileMaintenance", JObj(<<Kid("enabled", JTrue)>>)),
         Kid("packageRules",
             JArr(<<JObj(<<Kid("groupName", JStr("g")),
                           Kid("automergeType", JStr("pr")),
                           Kid("automerge", JFalse),
                           Kid("matchManagers", JArr(<<JStr(""), JStr("npm")>>))>>)>>))>>)

\* automerge absent, a field the editor does not know, a manager section
InheritRuleDoc ==
  JObj(<<Kid("npm", JObj(<<Kid("managerFilePatterns", JArr(<<JStr("a")>>))>>)),
         Kid("packageRules",
             JArr(<<JObj(<<Kid("enabled", JFalse),
                           Kid("matchCurrentVersion", JStr("1"))>>)>>))>>)

\* automerge on with an empty automergeType
BlankTypeDoc ==
  JObj(<<Kid("packageRules",
             JArr(<<JObj(<<Kid("automerge", JTrue),
                           Kid("automergeType", JStr(""))>>)>>))>>)

Docs == {EmptyDoc, FetchedDoc, DisabledRuleDoc, InheritRuleDoc, BlankTypeDoc}

ListKeys == {<<"labels">>, <<"lockFileMaintenance", "schedule">>}

ItemValues == {"a"}

ManagerChoices == {"", "npm"}

\* what may be typed into the group name field: nothing, a name, a space
GroupNames == {JStr(""), JStr("g"), JStr(" ")}

RuleListKeys == {"matchManagers"}

(***************************************************************************)
(* State                                                                   *)
(***************************************************************************)
VARIABLES
  renovateConfig,  \* HomeView: the loaded document, JNull for none
  hostLoading,     \* HomeView: isLoading
  error,           \* HomeView: the message shown, <<>> for null
  url,             \* UrlInput: the text of the URL field
  isLoading,       \* UrlInput: isLoading
  pc,              \* UrlInput: "idle", or "fetching" while loadConfig awaits a fetch
  urlsToTry,       \* loadConfig: the candidates
  tryIndex,        \* loadConfig: the candidate being fetched
  lastError,       \* loadConfig: lastError
  mounted,         \* whether HomeView renders a RenovateEditor
  editableConfig,  \* RenovateEditor: the working document
  viewMode,        \* RenovateEditor: "visual" or "json"
  jsonText,        \* RenovateEditor: the raw text
  newManager,      \* RenovateEditor: the manager selected for adding
  aliased,         \* RenovateEditor: editableConfig.value is the object props.config is
  output,          \* what the last step showed or wrote: alert, clipboard, download
  edits,           \* history: the structured edits made since the document was loaded
  hadEditor,       \* history: an editor was shown when the resolve in flight was requested
  fetched          \* history: the candidates fetched by the latest resolve, in order

hostVars == <<renovateConfig, hostLoading, error>>

urlVars == <<url, isLoading, pc, urlsToTry, tryIndex, lastError, fetched, hadEditor>>

editorVars == <<mounted, editableConfig, viewMode, jsonText, newManager, edits, aliased>>

vars == <<hostVars, urlVars, editorVars, output>>

NoOutput == [kind |-> "", msg |-> "", text |-> <<>>]

\* error.value is truthy: v-if="error" shows it
ErrorShown == \E i \in 1..Len(error) : error[i] # ""

(***************************************************************************)
(* HomeView.vue: what the template renders after a handler has run         *)
(***************************************************************************)
\* v-if="renovateConfig && !isLoading"
ShowsEditor(cfg, loading) == Truthy(cfg) /\ ~loading

\* updateJsonText serializing what would be exported:
\* `JSON.stringify(cleanConfig(editableConfig.value), null, 2)`
updateJsonTextCleaned(doc) == Stringify(cleanConfig(doc))

\* updateJsonText
updateJsonText(doc) == Stringify(doc)

\* Render with a watcher that also goes back to the structured view
RenderResetsView(cfg, loading, assigned) ==
  /\ mounted' = ShowsEditor(cfg, loading)
  /\ IF ShowsEditor(cfg, loading) /\ ~mounted
     THEN /\ editableConfig' = LoadDoc(cfg)
          /\ aliased' = LoadAliases(cfg)
          /\ viewMode' = "visual"
          /\ jsonText' = updateJsonText(LoadDoc(cfg))
          /\ newManager' = ""
          /\ edits' = 0
     ELSE IF ShowsEditor(cfg, loading)
     THEN IF assigned
          THEN /\ editableConfig' = LoadDoc(cfg)
               /\ aliased' = LoadAliases(cfg)
               /\ jsonText' = updateJsonText(LoadDoc(cfg))
               /\ edits' = 0
               /\ viewMode' = "visual"
               /\ UNCHANGED newManager
          ELSE UNCHANGED <<editableConfig, viewMode, jsonText, newManager, edits, aliased>>
     ELSE /\ editableConfig' = JUndef
          /\ aliased' = FALSE
          /\ viewMode' = "visual"
          /\ jsonText' = <<>>
          /\ newManager' = ""
          /\ edits' = 0

\* The editor after the host's state changed to (cfg, loading); assigned tells
\* whether renovateConfig was assigned a new object.  A RenovateEditor that
\* appears is a new instance: its setup runs the watcher at once.  One that
\* stays runs the watcher when its config prop is a new object.
Render(cfg, loading, assigned) ==
  /\ mounted' = ShowsEditor(cfg, loading)
  /\ IF ShowsEditor(cfg, loading) /\ ~mounted
     THEN /\ editableConfig' = LoadDoc(cfg)
          /\ aliased' = LoadAliases(cfg)
          /\ viewMode' = "visual"
          /\ jsonText' = updateJsonText(LoadDoc(cfg))
          /\ newManager' = ""
          /\ edits' = 0
     ELSE IF ShowsEditor(cfg, loading)
     THEN IF assigned
          THEN /\ editableConfig' = LoadDoc(cfg)
               /\ aliased' = LoadAliases(cfg)
               /\ jsonText' = updateJsonText(LoadDoc(cfg))
               /\ edits' = 0
               /\ UNCHANGED <<viewMode, newManager>>
          ELSE UNCHANGED <<editableConfig, viewMode, jsonText, newManager, edits, aliased>>
     ELSE /\ editableConfig' = JUndef
          /\ aliased' = FALSE
          /\ viewMode' = "visual"
          /\ jsonText' = <<>>
          /\ newManager' = ""
          /\ edits' = 0

\* the default configuration of defaults.ts
defaultConfig ==
  JObj(<<Kid("extends", JArr(<<JStr("config:recommended")>>)),
         Kid("packageRules", JArr(<<>>))>>)

Init ==
  /\ renovateConfig = JNull
  /\ hostLoading = FALSE
  /\ error = <<>>
  /\ url = <<>>
  /\ isLoading = FALSE
  /\ pc = "idle"
  /\ urlsToTry = <<>>
  /\ tryIndex = 0
  /\ lastError = ""
  /\ mounted = FALSE
  /\ editableConfig = JUndef
  /\ aliased = FALSE
  /\ viewMode = "visual"
  /\ jsonText = <<>>
  /\ newManager = ""
  /\ output = NoOutput
  /\ edits = 0
  /\ fetched = <<>>
  /\ hadEditor = FALSE

(***************************************************************************)
(* HomeView.vue and UrlInput.vue: the handlers                             *)
(***************************************************************************)
\* handleNewConfig without `error.value = null`
NewConfigKeepsError ==
  /\ renovateConfig' = DeepCopy(defaultConfig)
  /\ error' = error
  /\ Render(renovateConfig', hostLoading, TRUE)
  /\ output' = NoOutput
  /\ UNCHANGED <<hostLoading, urlVars>>

\* handleNewConfig
NewConfig ==
  /\ renovateConfig' = DeepCopy(defaultConfig)
  /\ error' = <<>>
  /\ Render(renovateConfig', hostLoading, TRUE)
  /\ output' = NoOutput
  /\ UNCHANGED <<hostLoading, urlVars>>

\* ResolveFails with a handleError that leaves the document in place
ResolveFailsKeepsDocument(urls, lastErr) ==
  /\ error' = FailureMessage(urls, lastErr)
  /\ renovateConfig' = renovateConfig
  /\ isLoading' = FALSE
  /\ hostLoading' = FALSE
  /\ pc' = "idle"
  /\ urlsToTry' = <<>>
  /\ tryIndex' = 0
  /\ lastError' = ""
  /\ hadEditor' = FALSE
  /\ Render(renovateConfig', hostLoading', FALSE)

\* ResolveFails without the finally block: the loading flags stay as they are
ResolveFailsNoFinally(urls, lastErr) ==
  /\ error' = FailureMessage(urls, lastErr)
  /\ renovateConfig' = JNull
  /\ isLoading' = isLoading
  /\ hostLoading' = hostLoading
  /\ pc' = "idle"
  /\ urlsToTry' = <<>>
  /\ tryIndex' = 0
  /\ lastError' = ""
  /\ hadEditor' = FALSE
  /\ Render(renovateConfig', hostLoading', TRUE)

\* loadConfig ends without a document: the catch emits the error (handleError),
\* the finally clears both loading flags
ResolveFails(urls, lastErr) ==
  /\ error' = FailureMessage(urls, lastErr)
  /\ renovateConfig' = JNull
  /\ isLoading' = FALSE
  /\ hostLoading' = FALSE
  /\ pc' = "idle"
  /\ urlsToTry' = <<>>
  /\ tryIndex' = 0
  /\ lastError' = ""
  /\ hadEditor' = FALSE
  /\ Render(renovateConfig', hostLoading', TRUE)

\* FormEnabled with the disabled bindings left out of the template
FormEnabledAlways == TRUE

\* the URL field and the Load button take input: :disabled="isLoading"
FormEnabled == ~isLoading

\* the form is submitted with u typed into the field: loadConfig up to its
\* first await.  The field and the button are disabled while isLoading.
Submit(u) ==
  /\ FormEnabled
  /\ url' = u
  /\ output' = NoOutput
  /\ IF IsBlank(u)
     THEN /\ error' = <<"Please enter a URL">>
          /\ renovateConfig' = JNull
          /\ Render(renovateConfig', hostLoading, TRUE)
          /\ UNCHANGED <<hostLoading, isLoading, pc, urlsToTry, tryIndex, lastError, fetched, hadEditor>>
     ELSE IF CandidateUrls(u) = <<>>
     THEN \* no candidate: the loop body never runs and nothing is awaited
          /\ ResolveFails(CandidateUrls(u), "")
          /\ fetched' = <<>>
     ELSE \* emit('loading', true), emit('error', ''), the first fetch goes out
          /\ isLoading' = TRUE
          /\ hostLoading' = TRUE
          /\ error' = <<"">>
          /\ renovateConfig' = JNull
          /\ urlsToTry' = CandidateUrls(u)
          /\ tryIndex' = 1
          /\ fetched' = <<1>>
          /\ lastError' = ""
          /\ pc' = "fetching"
          /\ hadEditor' = mounted
          /\ Render(renovateConfig', hostLoading', TRUE)

\* the awaited fetch of candidate tryIndex ends with outcome: the rest of the
\* loop body, then the next fetch or the end of loadConfig
FetchReturns(outcome) ==
  /\ pc = "fetching"
  /\ output' = NoOutput
  /\ UNCHANGED url
  /\ LET result == tryFetch(outcome) IN
     IF Accepts(result)
     THEN \* config = result.data; break; emit('config-loaded', config); finally
          /\ renovateConfig' = result.data
          /\ error' = <<>>
          /\ isLoading' = FALSE
          /\ hostLoading' = FALSE
          /\ pc' = "idle"
          /\ urlsToTry' = <<>>
          /\ tryIndex' = 0
          /\ lastError' = ""
          /\ hadEditor' = FALSE
          /\ Render(renovateConfig', hostLoading', TRUE)
          /\ UNCHANGED fetched
     ELSE IF NextCandidate(tryIndex) \in 1..Len(urlsToTry)
     THEN /\ lastError' = ErrorOf(result)
          /\ tryIndex' = NextCandidate(tryIndex)
          /\ fetched' = Append(fetched, NextCandidate(tryIndex))
          /\ UNCHANGED <<hostVars, isLoading, pc, urlsToTry, hadEditor, editorVars>>
     ELSE /\ ResolveFails(urlsToTry, ErrorOf(result))
          /\ UNCHANGED fetched

(***************************************************************************)
(* RenovateEditor.vue: the handlers.  An editor handler runs only while    *)
(* the editor is rendered.                                                 *)
(***************************************************************************)
\* the frame of an editor handler: the host and the resolver are untouched
EditorStep == UNCHANGED <<hostVars, urlVars, mounted, aliased>>

\* the frame of a handler that writes into the working document in place: the
\* write is seen through props.config where the two are one object
InPlace(doc) ==
  /\ renovateConfig' = IF aliased THEN doc ELSE renovateConfig
  /\ UNCHANGED <<hostLoading, error, urlVars, mounted, aliased>>

\* the JSON Editor button
switchToJsonMode ==
  /\ mounted
  /\ jsonText' = updateJsonText(editableConfig)
  /\ viewMode' = "json"
  /\ output' = NoOutput
  /\ EditorStep
  /\ UNCHANGED <<editableConfig, newManager, edits>>

\* the Visual Editor button: @click="viewMode = 'visual'"
ClickVisualEditor ==
  /\ mounted
  /\ viewMode' = "visual"
  /\ output' = NoOutput
  /\ EditorStep
  /\ UNCHANGED <<editableConfig, jsonText, newManager, edits>>

\* the user types into the textarea (v-model="jsonText"), shown in json mode
TypeJsonText(text) ==
  /\ mounted
  /\ viewMode = "json"
  /\ text # jsonText
  /\ jsonText' = text
  /\ output' = NoOutput
  /\ EditorStep
  /\ UNCHANGED <<editableConfig, viewMode, newManager, edits>>

InvalidJsonAlert == [kind |-> "alert", msg |-> "Invalid JSON. Please fix the syntax errors.", text |-> <<>>]

\* switchToVisualMode with the mode assigned before the parse
switchToVisualModeSwitchesFirst(doc, mode, text) ==
  IF CanParse(text)
  THEN [doc |-> JSONparse(text), mode |-> "visual", out |-> NoOutput]
  ELSE [doc |-> doc, mode |-> "visual", out |-> InvalidJsonAlert]

\* what switchToVisualMode leaves: the document, the view mode and the alert
switchToVisualModeResult(doc, mode, text) ==
  IF CanParse(text)
  THEN [doc |-> JSONparse(text), mode |-> "visual", out |-> NoOutput]
  ELSE [doc |-> doc, mode |-> mode, out |-> InvalidJsonAlert]

\* the Apply Changes button, shown in json mode
switchToVisualMode ==
  /\ mounted
  /\ viewMode = "json"
  /\ LET r == switchToVisualModeResult(editableConfig, viewMode, jsonText) IN
       /\ editableConfig' = r.doc
       /\ viewMode' = r.mode
       /\ output' = r.out
  \* editableConfig.value = parsed: the working document is the parsed object
  /\ aliased' = (aliased /\ ~CanParse(jsonText))
  /\ UNCHANGED <<hostVars, urlVars, mounted>>
  /\ UNCHANGED <<jsonText, newManager, edits>>

\* ExportText taking what the textarea holds: `const text = jsonText.value`
ExportTextOfRawText(doc) == jsonText

\* JSON.stringify(cleanConfig(editableConfig.value), null, 2)
ExportText(doc) == Stringify(cleanConfig(doc))

\* cleanConfig reads cleaned.packageRules: it throws on null
CanExport(doc) == doc # JNull /\ doc # JUndef

copyToClipboard ==
  /\ mounted
  /\ CanExport(editableConfig)
  /\ output' = [kind |-> "clipboard", msg |-> "", text |-> ExportText(editableConfig)]
  /\ EditorStep
  /\ UNCHANGED <<editableConfig, viewMode, jsonText, newManager, edits>>

downloadConfig ==
  /\ mounted
  /\ CanExport(editableConfig)
  /\ output' = [kind |-> "download", msg |-> "renovate.json", text |-> ExportText(editableConfig)]
  /\ EditorStep
  /\ UNCHANGED <<editableConfig, viewMode, jsonText, newManager, edits>>

\* the structured view is rendered: v-if="viewMode === 'visual'", over a
\* document whose keys the template can test
Structured == mounted /\ viewMode = "visual" /\ IsObject(editableConfig)

\* a structured edit: only the working document changes
Edit(doc) ==
  /\ editableConfig' = doc
  /\ edits' = edits + 1
  /\ output' = NoOutput
  /\ InPlace(doc)
  /\ UNCHANGED <<viewMode, jsonText, newManager>>

\* the list at key, undefined when the key or its parent is absent
ListAt(doc, key) ==
  IF Len(key) > 1 THEN Get(Get(doc, key[1]), key[2]) ELSE Get(doc, key[1])

AddToArray(key) ==
  /\ Structured
  /\ Len(ListAt(editableConfig, key).kids) < MaxItems
  /\ Edit(addToArray(editableConfig, key))

RemoveFromArray(key, index) ==
  /\ Structured
  /\ Edit(removeFromArray(editableConfig, key, index))

\* an element of a displayed list is typed over
SetArrayItem(key, index, val) ==
  /\ Structured
  /\ IsArray(ListAt(editableConfig, key))
  /\ index \in 0..(Len(ListAt(editableConfig, key).kids) - 1)
  /\ Edit(setArrayItem(editableConfig, key, index, JStr(val)))

AddPackageRule ==
  /\ Structured
  /\ Len(Get(editableConfig, "packageRules").kids) < MaxRules
  /\ Edit(addPackageRule(editableConfig))

RemovePackageRule(index) ==
  /\ Structured
  /\ Edit(removePackageRule(editableConfig, index))

\* the rule at ruleIndex is displayed: v-for over packageRules
RuleShown(ruleIndex) ==
  /\ Structured
  /\ IsArray(Get(editableConfig, "packageRules"))
  /\ IsObject(RuleAt(editableConfig, ruleIndex))

\* a field of a displayed rule is typed or selected
SetRuleField(ruleIndex, key, val) ==
  /\ RuleShown(ruleIndex)
  /\ Edit(setRuleField(editableConfig, ruleIndex, key, val))

AddToPackageRuleArray(ruleIndex, key) ==
  /\ RuleShown(ruleIndex)
  /\ Len(Get(RuleAt(editableConfig, ruleIndex), key).kids) < MaxItems
  /\ Edit(addToPackageRuleArray(editableConfig, ruleIndex, key))

RemoveFromPackageRuleArray(ruleIndex, key, itemIndex) ==
  /\ RuleShown(ruleIndex)
  /\ Edit(removeFromPackageRuleArray(editableConfig, ruleIndex, key, itemIndex))

SetRuleArrayItem(ruleIndex, key, idx, val) ==
  /\ RuleShown(ruleIndex)
  /\ IsArray(Get(RuleAt(editableConfig, ruleIndex), key))
  /\ idx \in 0..(Len(Get(RuleAt(editableConfig, ruleIndex), key).kids) - 1)
  /\ Edit(setRuleArrayItem(editableConfig, ruleIndex, key, idx, JStr(val)))

\* the manager select: v-model="newManager"
SelectManager(manager) ==
  /\ Structured
  /\ manager # newManager
  /\ newManager' = manager
  /\ output' = NoOutput
  /\ EditorStep
  /\ UNCHANGED <<editableConfig, viewMode, jsonText, edits>>

AddManagerConfiguration ==
  /\ Structured
  /\ editableConfig' = addManagerConfiguration(editableConfig, newManager)
  /\ newManager' = IF CanAddManager(editableConfig, newManager) THEN "" ELSE newManager
  /\ edits' = edits + 1
  /\ output' = NoOutput
  /\ InPlace(editableConfig')
  /\ UNCHANGED <<viewMode, jsonText>>

\* the Remove button of a displayed manager section
RemoveManager(manager) ==
  /\ Structured
  /\ Has(editableConfig, manager)
  /\ Edit(removeManager(editableConfig, manager))

(***************************************************************************)
(* The application                                                         *)
(***************************************************************************)
RuleIndexes == 0..(MaxRules - 1)

ItemIndexes == (0 - 1)..MaxItems

\* the raw text with its closing bracket deleted, where the text is valid
CorruptedTexts ==
  IF CanParse(jsonText) THEN {SubSeq(jsonText, 1, Len(jsonText) - 1)} ELSE {}

ViewNext ==
  \/ switchToJsonMode
  \/ ClickVisualEditor
  \/ \E text \in TypedTexts \cup CorruptedTexts : TypeJsonText(text)
  \/ switchToVisualMode
  \/ copyToClipboard
  \/ downloadConfig

EditNext ==
  \/ \E key \in ListKeys : AddToArray(key)
  \/ \E key \in ListKeys, index \in ItemIndexes : RemoveFromArray(key, index)
  \/ \E key \in ListKeys, index \in 0..(MaxItems - 1), val \in ItemValues :
       SetArrayItem(key, index, val)
  \/ AddPackageRule
  \/ \E index \in (0 - 1)..MaxRules : RemovePackageRule(index)
  \/ \E r \in RuleIndexes, val \in GroupNames : SetRuleField(r, "groupName", val)
  \/ \E r \in RuleIndexes, val \in {JUndef, JTrue, JFalse} : SetRuleField(r, "automerge", val)
  \/ \E r \in RuleIndexes, val \in {JStr("branch"), JStr("pr")} : SetRuleField(r, "automergeType", val)
  \/ \E r \in RuleIndexes, key \in RuleListKeys : AddToPackageRuleArray(r, key)
  \/ \E r \in RuleIndexes, key \in RuleListKeys, idx \in ItemIndexes :
       RemoveFromPackageRuleArray(r, key, idx)
  \/ \E r \in RuleIndexes, key \in RuleListKeys, idx \in 0..(MaxItems - 1), val \in ItemValues :
       SetRuleArrayItem(r, key, idx, val)
  \/ \E manager \in ManagerChoices : SelectManager(manager)
  \/ AddManagerConfiguration
  \/ \E manager \in ManagerChoices : RemoveManager(manager)

\* the application: the host view, the resolver and the editor in its
\* structured view, the structured edits of one document bounded
Next ==
  \/ NewConfig
  \/ \E u \in UrlInputs : Submit(u)
  \/ \E outcome \in FetchOutcomes : FetchReturns(outcome)
  \/ copyToClipboard
  \/ downloadConfig
  \/ (edits < MaxAppEdits /\ EditNext)

Spec == Init /\ [][Next]_vars

(***************************************************************************)
(* The host view and the resolver on their own, every fetch that is        *)
(* awaited returning in the end: fetch() settles with a response or        *)
(* rejects, so the step after `await tryFetch(...)` is taken once it is    *)
(* enabled                                                                 *)
(***************************************************************************)
ResolveNext ==
  \/ NewConfig
  \/ \E u \in UrlInputs : Submit(u)
  \/ \E outcome \in FetchOutcomes : FetchReturns(outcome)

FetchesReturn == WF_vars(\E outcome \in FetchOutcomes : FetchReturns(outcome))

LiveSpec == Init /\ [][ResolveNext]_vars /\ FetchesReturn

(***************************************************************************)
(* The editor on its own: a RenovateEditor rendered over a document of     *)
(* Docs, its config prop replaced now and then                             *)
(***************************************************************************)
InitEditor ==
  /\ renovateConfig \in Docs
  /\ hostLoading = FALSE
  /\ error = <<>>
  /\ url = <<>>
  /\ isLoading = FALSE
  /\ pc = "idle"
  /\ urlsToTry = <<>>
  /\ tryIndex = 0
  /\ lastError = ""
  /\ mounted = TRUE
  /\ editableConfig = LoadDoc(renovateConfig)
  /\ aliased = LoadAliases(renovateConfig)
  /\ viewMode = "visual"
  /\ jsonText = updateJsonText(LoadDoc(renovateConfig))
  /\ newManager = ""
  /\ output = NoOutput
  /\ edits = 0
  /\ fetched = <<>>
  /\ hadEditor = FALSE

\* the parent hands the editor another document: the watcher runs
ConfigReplaced(doc) ==
  /\ doc # renovateConfig
  /\ renovateConfig' = doc
  /\ Render(doc, hostLoading, TRUE)
  /\ output' = NoOutput
  /\ UNCHANGED <<hostLoading, error, urlVars>>

\* the structured view and the export
EditorNext ==
  \/ \E doc \in Docs : ConfigReplaced(doc)
  \/ copyToClipboard
  \/ (edits < MaxEdits /\ EditNext)

EditorSpec == InitEditor /\ [][EditorNext]_vars

\* the structured edits taken between the two views: the adds and removes of
\* list items, rules and manager sections, and a field of a rule
ViewEditNext ==
  \/ \E key \in ListKeys : AddToArray(key)
  \/ \E key \in ListKeys, index \in ItemIndexes : RemoveFromArray(key, index)
  \/ AddPackageRule
  \/ \E index \in (0 - 1)..MaxRules : RemovePackageRule(index)
  \/ \E r \in RuleIndexes, val \in GroupNames : SetRuleField(r, "groupName", val)
  \/ \E manager \in ManagerChoices : SelectManager(manager)
  \/ AddManagerConfiguration
  \/ \E manager \in ManagerChoices : RemoveManager(manager)

\* both views, the raw text and the export
ViewSpecNext ==
  \/ \E doc \in Docs : ConfigReplaced(doc)
  \/ ViewNext
  \/ (edits < MaxViewEdits /\ ViewEditNext)

ViewSpec == InitEditor /\ [][ViewSpecNext]_vars

(***************************************************************************)
(* Properties                                                              *)
(***************************************************************************)
\* the package rules of a document, none when it has no such list
Rules(doc) ==
  IF IsArray(Get(doc, "packageRules")) THEN Elems(Get(doc, "packageRules")) ELSE <<>>

\* the fields of a rule outside the editor's fixed list, with their values
ExtraFields(rule) == SeqFilter(rule.kids, LAMBDA kid : ~IsRuleField(kid.k))

\* C1 as the specification states it: a fetch that returns parseable text ends
\* the resolve with the parsed value as the document, whatever the value is
\* (null, false, 0 and the empty string included), and nothing more is fetched.
C1_AnyParsedValueWins ==
  [][\A outcome \in FetchOutcomes :
       (FetchReturns(outcome) /\ tryFetch(outcome).success)
         => /\ pc' = "idle"
            /\ renovateConfig' = tryFetch(outcome).data
            /\ fetched' = fetched]_vars

\* C1: candidates are fetched in list order, one at a time.  A fetch that
\* returns parseable text whose value is truthy ends the resolve with that
\* value as the document and nothing more is fetched; after any other fetch
\* (a failure, or a parsed value that is falsy) the next candidate in the list
\* is fetched, or the resolve fails when there is none.
C1_FirstTruthyCandidateWins ==
  [][/\ fetched' = [i \in 1..Len(fetched') |-> i]
     /\ \A outcome \in FetchOutcomes :
          FetchReturns(outcome) =>
            LET r == tryFetch(outcome) IN
            IF r.success /\ Truthy(r.data)
            THEN /\ pc' = "idle"
                 /\ renovateConfig' = r.data
                 /\ fetched' = fetched
            ELSE IF tryIndex < Len(urlsToTry)
            THEN /\ pc' = "fetching"
                 /\ tryIndex' = tryIndex + 1
                 /\ fetched' = Append(fetched, tryIndex + 1)
            ELSE /\ pc' = "idle"
                 /\ ~Truthy(renovateConfig')
                 /\ ErrorShown'
                 /\ fetched' = fetched]_vars

\* a resolve that took its third candidate of eight: two were fetched before
\* it and none after it
C1_Witness ==
  /\ pc = "idle"
  /\ Truthy(renovateConfig)
  /\ Len(fetched) = 3
  /\ Len(CandidateUrls(url)) = 8

\* C2 as the specification states it: a resolve that fails leaves the working
\* document as it was: the editor that was shown is still shown, over the same
\* document.
C2_FailedResolveKeepsDocument ==
  [][/\ \A u \in UrlInputs :
          (Submit(u) /\ pc' = "idle" /\ mounted)
            => (mounted' /\ editableConfig' = editableConfig)
     /\ (pc = "fetching" /\ pc' = "idle" /\ ErrorShown' /\ hadEditor) => mounted']_vars

C4_FailedApplyChangesNothing ==
  [][/\ (switchToVisualMode /\ ~CanParse(jsonText))
          => /\ editableConfig' = editableConfig
             /\ jsonText' = jsonText
             /\ viewMode' = "json"
             /\ output' = InvalidJsonAlert
     /\ output' = InvalidJsonAlert
          => /\ viewMode = "json"
             /\ ~CanParse(jsonText)
             /\ UNCHANGED <<editableConfig, jsonText, viewMode>>]_vars

\* the alert is up, the raw text still the invalid text, the view still raw-text
C4_Witness == output = InvalidJsonAlert /\ viewMode = "json" /\ ~CanParse(jsonText)

\* C5 as the specification states it: a document the user made by New Config
\* while a resolve was running is still the document when that resolve ends.
C5_StaleResolveDiscarded ==
  [][(pc = "fetching" /\ Truthy(renovateConfig) /\ pc' = "idle")
       => renovateConfig' = renovateConfig]_vars

\* C6 as the specification states it: exporting, loading the export and
\* exporting again gives the first export.
C6_ExportLoadIdempotent ==
  mounted =>
    LET e1 == cleanConfig(LoadDoc(renovateConfig)) IN
    cleanConfig(LoadDoc(e1)) = e1

\* the rules of an export all satisfy: automergeType present only beside
\* automerge true
AutomergeTypeImpliesAutomerge(doc) ==
  \A i \in 1..Len(Rules(doc)) :
    Has(Rules(doc)[i], "automergeType") => Get(Rules(doc)[i], "automerge") = JTrue

\* C7: in every exported document a rule that has automergeType has automerge
\* true: in the export of the working document after any edits, and in the
\* text that was copied.
C7_AutomergeTypeOnlyWithAutomerge ==
  /\ (mounted /\ CanExport(editableConfig))
       => AutomergeTypeImpliesAutomerge(cleanConfig(editableConfig))
  /\ output.kind = "clipboard"
       => AutomergeTypeImpliesAutomerge(JSONparse(output.text))

\* an edited document was copied and its rule carries automergeType
C7_Witness ==
  /\ output.kind = "clipboard"
  /\ edits > 0
  /\ \E i \in 1..Len(Rules(JSONparse(output.text))) :
       Has(Rules(JSONparse(output.text))[i], "automergeType")

\* automerge of a rule before (in) and after (out): false stays false, true
\* stays true, unset or absent is absent
TriState(in, out) ==
  /\ Get(in, "automerge") = JFalse
       => (Has(out, "automerge") /\ Get(out, "automerge") = JFalse)
  /\ Get(in, "automerge") = JTrue
       => (Has(out, "automerge") /\ Get(out, "automerge") = JTrue)
  /\ Get(in, "automerge") = JUndef => ~Has(out, "automerge")

\* C8: automerge of a rule has three states and Load followed by Export keeps
\* each: false is exported as false, true as true, and a rule without
\* automerge is exported without it.  The same holds from the working document
\* to its export after any edits.
C8_AutomergeTriState ==
  mounted =>
    /\ Len(Rules(cleanConfig(LoadDoc(renovateConfig)))) = Len(Rules(renovateConfig))
    /\ \A i \in 1..Len(Rules(renovateConfig)) :
         TriState(Rules(renovateConfig)[i],
                  Rules(cleanConfig(LoadDoc(renovateConfig)))[i])
    /\ Len(Rules(cleanConfig(editableConfig))) = Len(Rules(editableConfig))
    /\ \A i \in 1..Len(Rules(editableConfig)) :
         TriState(Rules(editableConfig)[i], Rules(cleanConfig(editableConfig))[i])

\* a loaded rule without automerge was copied, and the copy has none
C8_Witness ==
  /\ output.kind = "clipboard"
  /\ edits = 0
  /\ Len(Rules(renovateConfig)) = 1
  /\ ~Has(Rules(renovateConfig)[1], "automerge")
  /\ Len(Rules(JSONparse(output.text))) = 1
  /\ ~Has(Rules(JSONparse(output.text))[1], "automerge")

\* the rules of from and to carry the same extra fields, rule by rule
SameExtraFields(from, to) ==
  /\ Len(Rules(to)) = Len(Rules(from))
  /\ \A i \in 1..Len(Rules(from)) :
       ExtraFields(Rules(to)[i]) = ExtraFields(Rules(from)[i])

\* a state of the editor: Load and Export keep the extra fields
ExtraFieldsKept ==
  mounted =>
    /\ SameExtraFields(renovateConfig, LoadDoc(renovateConfig))
    /\ SameExtraFields(editableConfig, cleanConfig(editableConfig))

\* C9: the fields of a rule outside the editor's fixed list are kept with
\* their values by Load, by Export and by every structured edit that leaves
\* the number of rules as it is.
C9_ExtraRuleFieldsPreserved ==
  /\ []ExtraFieldsKept
  /\ [][(edits' = edits + 1 /\ Len(Rules(editableConfig')) = Len(Rules(editableConfig)))
          => SameExtraFields(editableConfig, editableConfig')]_vars

\* the rule's description is in the copy made after an edit
C9_Witness ==
  /\ output.kind = "clipboard"
  /\ edits > 0
  /\ Len(Rules(JSONparse(output.text))) = 1
  /\ Get(Rules(JSONparse(output.text))[1], "description") = JStr("note")

\* the eight candidates of github.com/acme/widgets, as Resolve must list them
BareRepoCandidates ==
  <<RawUrl("acme", "widgets", "main", <<"renovate.json">>),
    RawUrl("acme", "widgets", "main", <<".github", "renovate.json">>),
    RawUrl("acme", "widgets", "main", <<".renovaterc.json">>),
    RawUrl("acme", "widgets", "main", <<".renovaterc">>),
    RawUrl("acme", "widgets", "master", <<"renovate.json">>),
    RawUrl("acme", "widgets", "master", <<".github", "renovate.json">>),
    RawUrl("acme", "widgets", "master", <<".renovaterc.json">>),
    RawUrl("acme", "widgets", "master", <<".renovaterc">>)>>

\* C10: for a bare repository URL the candidates are exactly eight, branch
\* main before branch master, and within a branch renovate.json,
\* .github/renovate.json, .renovaterc.json, .renovaterc.
C10_BareRepoCandidatesInOrder ==
  (pc = "fetching" /\ url = BareRepoUrl) => urlsToTry = BareRepoCandidates

\* the resolve of the bare repository URL is at its first master candidate
C10_Witness ==
  /\ pc = "fetching"
  /\ url = BareRepoUrl
  /\ tryIndex = 5
  /\ urlsToTry[tryIndex] = RawUrl("acme", "widgets", "master", <<"renovate.json">>)

\* what the network answers where the file does not exist
NotFound == HttpStatus("404")

\* what it answers where the file exists
Found == OkBody(Stringify(FetchedDoc))

\* C11: in the resolve of github.com/acme/widgets where only
\* .github/renovate.json on master exists, each of the first five candidates
\* is fetched and fails and the next one is fetched; the sixth candidate is
\* (master, .github/renovate.json) and its fetch ends the resolve with its
\* document, six candidates fetched in order.
C11_SucceedsOnSixthCandidate ==
  [][(pc = "fetching" /\ url = BareRepoUrl) =>
       /\ (tryIndex < 6 /\ FetchReturns(NotFound))
            => /\ pc' = "fetching"
               /\ tryIndex' = tryIndex + 1
               /\ fetched' = [i \in 1..(tryIndex + 1) |-> i]
               /\ UNCHANGED <<renovateConfig, error>>
       /\ (tryIndex = 6 /\ FetchReturns(Found))
            => /\ urlsToTry[6] = RawUrl("acme", "widgets", "master", <<".github", "renovate.json">>)
               /\ pc' = "idle"
               /\ renovateConfig' = FetchedDoc
               /\ ~ErrorShown'
               /\ fetched' = <<1, 2, 3, 4, 5, 6>>]_vars

\* the resolve ended at its sixth candidate, the five before it having failed
C11_Witness ==
  /\ pc = "idle"
  /\ url = BareRepoUrl
  /\ renovateConfig = FetchedDoc
  /\ fetched = <<1, 2, 3, 4, 5, 6>>

\* the inputs that are empty or hold white space only
BlankInputs == {<<>>, <<" ">>}

\* C12: a resolve request whose input is empty or white space fails at once
\* with 'Please enter a URL': nothing is fetched and no resolve is running.
C12_BlankInputNoFetch ==
  [][\A u \in BlankInputs :
       Submit(u) => /\ error' = <<"Please enter a URL">>
                    /\ pc' = "idle"
                    /\ ~isLoading' /\ ~hostLoading'
                    /\ fetched' = fetched
                    /\ urlsToTry' = <<>>]_vars

\* a white-space input was rejected after an earlier resolve had fetched
C12_Witness ==
  /\ url = <<" ">>
  /\ error = <<"Please enter a URL">>
  /\ pc = "idle"
  /\ Len(fetched) > 0

\* C13 as the specification states it: every input that is not blank has at
\* least one candidate and its first candidate is fetched; an input that is
\* neither a raw-content URL, nor a blob URL, nor a bare repository reference
\* is its own single candidate.
C13_EveryInputHasACandidate ==
  [][\A u \in UrlInputs \ BlankInputs :
       Submit(u) => /\ pc' = "fetching"
                    /\ Len(urlsToTry') >= 1
                    /\ fetched' = <<1>>
                    /\ (u \in {OwnerOnlyUrl, OtherUrl} => urlsToTry' = <<u>>)]_vars

KeySet(doc) == {Keys(doc)[i] : i \in 1..Len(Keys(doc))}

\* C15: Load adds no key: the working document after Load(d) has exactly the
\* top-level keys of d, in their order, for the document handed in and for
\* every working document handed in again; the raw text of SwitchToRawText
\* and the exported document have no top-level key the working document
\* lacks.
C15_LoadAddsNoKey ==
  mounted =>
    /\ Keys(LoadDoc(renovateConfig)) = Keys(renovateConfig)
    /\ Keys(LoadDoc(editableConfig)) = Keys(editableConfig)
    /\ KeySet(JSONparse(updateJsonText(editableConfig))) \subseteq KeySet(editableConfig)
    /\ KeySet(cleanConfig(editableConfig)) \subseteq KeySet(editableConfig)
    /\ output.kind = "clipboard" => KeySet(JSONparse(output.text)) \subseteq KeySet(editableConfig)

\* a document without packageRules was loaded, edited and copied: no
\* packageRules in the copy
C15_Witness ==
  /\ output.kind = "clipboard"
  /\ edits > 0
  /\ ~Has(renovateConfig, "packageRules")
  /\ ~Has(editableConfig, "packageRules")
  /\ ~Has(JSONparse(output.text), "packageRules")

\* the elements of the list at key, none where there is no list
ItemsAt(doc, key) ==
  IF IsArray(ListAt(doc, key)) THEN Elems(ListAt(doc, key)) ELSE <<>>

\* from and to agree on every key of from but key
SameButKey(from, to, key) ==
  /\ KeySet(to) = KeySet(from) \cup {key}
  /\ \A k \in KeySet(from) \ {key} : Get(to, k) = Get(from, k)

\* C16: AddListItem on a top-level or one-level-nested path that holds a list
\* or nothing ends with a list at the path: the earlier elements, then the
\* empty string.  A container or list that was absent is created, and every
\* other key of the document (and of the container) is as it was.
C16_AddListItemAppendsEmptyString ==
  [][\A key \in ListKeys :
       AddToArray(key) =>
         /\ IsArray(ListAt(editableConfig', key))
         /\ ItemsAt(editableConfig', key) = Append(ItemsAt(editableConfig, key), JStr(""))
         /\ SameButKey(editableConfig, editableConfig', key[1])
         /\ Len(key) > 1 =>
              SameButKey(Get(editableConfig, key[1]), Get(editableConfig', key[1]), key[2])]_vars

\* AddListItem('lockFileMaintenance.schedule') on a document that lacked
\* lockFileMaintenance
C16_Witness ==
  /\ mounted
  /\ edits = 1
  /\ ~Has(renovateConfig, "lockFileMaintenance")
  /\ Get(editableConfig, "lockFileMaintenance")
       = JObj(<<Kid("schedule", JArr(<<JStr("")>>))>>)

\* C17 as the specification states it: RemoveListItem deletes exactly the
\* element at index where the path holds a list and 0 <= index < length, and
\* leaves the document as it was otherwise: no list at the path, or an index
\* that is negative or at or beyond the length.
C17_RemoveListItemOrNoOp ==
  [][\A key \in ListKeys, index \in ItemIndexes :
       RemoveFromArray(key, index) =>
         LET items == ItemsAt(editableConfig, key) IN
         IF IsArray(ListAt(editableConfig, key)) /\ index >= 0 /\ index < Len(items)
         THEN /\ ItemsAt(editableConfig', key)
                   = SubSeq(items, 1, index) \o SubSeq(items, index + 2, Len(items))
              /\ SameButKey(editableConfig, editableConfig', key[1])
         ELSE editableConfig' = editableConfig]_vars

\* a string value that holds nothing but white space
BlankString(v) == v \in {JStr(""), JStr(" ")}

\* the string fields and the sequence fields among the fixed rule fields
StringRuleFields == {"groupName", "matchCurrentVersion"}

SequenceRuleFields ==
  {"matchManagers", "matchDatasources", "matchFileNames", "matchUpdateTypes", "matchDepTypes"}

\* C18 as the specification states it: an exported rule has a string field
\* only where the working rule's is not blank and a sequence field only where
\* it is not empty, no exported string field is blank and no exported
\* sequence field is empty, and every string field that is not blank in the
\* working rule is exported.
C18_ExportsNonEmptyFieldsOnly ==
  (mounted /\ CanExport(editableConfig)) =>
    \A i \in 1..Len(Rules(editableConfig)) :
      LET rule == Rules(editableConfig)[i]
          out == Rules(cleanConfig(editableConfig))[i]
      IN /\ \A f \in StringRuleFields :
              /\ Has(out, f) => ~BlankString(Get(out, f))
              /\ (Has(rule, f) /\ ~BlankString(Get(rule, f))) => Get(out, f) = Get(rule, f)
         /\ \A f \in SequenceRuleFields :
              Has(out, f) => (IsArray(Get(out, f)) /\ Elems(Get(out, f)) # <<>>)

\* C19: a resolve that was fetching ends in exactly one of two ways: a
\* document is loaded and no error is shown, or an error message that is not
\* empty is shown and there is no document.  Either way both loading flags
\* are cleared: no failure of a fetch or of a parse leaves the resolve hanging.
C19_ExactlyOneOutcome ==
  [][(pc = "fetching" /\ pc' = "idle") =>
       /\ ~isLoading' /\ ~hostLoading'
       /\ \/ (Truthy(renovateConfig') /\ error' = <<>>)
          \/ (~Truthy(renovateConfig') /\ ErrorShown' /\ error'[1] = "Error loading config: ")
       /\ \E outcome \in FetchOutcomes : FetchReturns(outcome)]_vars

\* a resolve of eight candidates ended in an error, with no document
C19_Witness ==
  /\ pc = "idle"
  /\ Len(fetched) = 8
  /\ ErrorShown
  /\ renovateConfig = JNull
  /\ ~mounted

RuleFieldDefault(key) ==
  CASE key \in {"groupName", "matchCurrentVersion"} -> JStr("")
    [] key = "automergeType" -> JStr("branch")
    [] key = "automerge" -> JUndef
    [] OTHER -> JArr(<<>>)

\* the rule `out` is the rule `in` after Load: every fixed field is a key of
\* out, with the value of in where in has the field and the default otherwise
LoadedRule(in, out) ==
  \A i \in 1..Len(RuleFields) :
    LET key == RuleFields[i]
    IN /\ Has(out, key)
       /\ Get(out, key) = IF Has(in, key) THEN Get(in, key) ELSE RuleFieldDefault(key)

\* d handed to Load gives as many rules, each the loaded form of the rule at
\* its position
LoadFillsDefaults(d) ==
  /\ Len(Rules(LoadDoc(d))) = Len(Rules(d))
  /\ \A i \in 1..Len(Rules(d)) : LoadedRule(Rules(d)[i], Rules(LoadDoc(d))[i])

\* C21: after Load every rule has each fixed rule field: a field absent in the
\* input has its default ('' for groupName and matchCurrentVersion, [] for the
\* five lists, 'branch' for automergeType, unset for automerge), a field
\* present in the input keeps the input's value, and the rules are as many and
\* in the same order as in the input.  Checked for the document handed to the
\* editor and for the JSON form of every working document handed in again.
C21_LoadFillsDefaults ==
  mounted =>
    /\ LoadFillsDefaults(renovateConfig)
    /\ LoadFillsDefaults(DeepCopy(editableConfig))
    /\ edits = 0 => Rules(editableConfig) = Rules(LoadDoc(renovateConfig))

\* a rule with an empty automergeType and neither groupName nor matchManagers
\* was loaded: the empty string is kept, the absent fields are defaulted
C21_Witness ==
  /\ mounted
  /\ edits = 0
  /\ Len(Rules(editableConfig)) = 1
  /\ LET in == Rules(renovateConfig)[1]
         out == Rules(editableConfig)[1]
     IN /\ Has(in, "automergeType") /\ Get(in, "automergeType") = JStr("")
        /\ Get(out, "automergeType") = JStr("")
        /\ ~Has(in, "groupName") /\ Get(out, "groupName") = JStr("")
        /\ ~Has(in, "matchManagers") /\ Get(out, "matchManagers") = JArr(<<>>)

\* C22: right after Load (the watcher run of the editor's setup over the
\* document handed in, and every replacement of its config prop) and right
\* after SwitchToRawText the raw text is the pretty-printed serialization of
\* the working document; SwitchToRawText has no guard but the editor being
\* shown, the text it writes is well-formed, and it ends in raw-text mode and
\* leaves the document alone; an Apply Changes over text that parses makes
\* the working document the parsed text and ends in the structured view.
C22_RawTextFollowsDocument ==
  /\ []((mounted /\ edits = 0 /\ viewMode = "visual" /\ output = NoOutput) =>
         updateJsonText(LoadDoc(renovateConfig)) = Stringify(LoadDoc(renovateConfig)))
  /\ [][/\ (renovateConfig' # renovateConfig /\ ConfigReplaced(renovateConfig')) =>
             jsonText' = Stringify(editableConfig')
        /\ (viewMode' = "json" /\ editableConfig' = editableConfig /\ switchToJsonMode) =>
             /\ jsonText' = Stringify(editableConfig')
             /\ CanParse(jsonText')
        /\ (viewMode = "json" /\ jsonText' = jsonText /\ CanParse(jsonText)
               /\ switchToVisualMode) =>
             /\ editableConfig' = JSONparse(jsonText)
             /\ viewMode' = "visual"]_vars

\* the raw text view over an edited document after SwitchToRawText: the text
\* shows the edit
C22_Witness ==
  /\ viewMode = "json"
  /\ edits > 0
  /\ editableConfig # LoadDoc(renovateConfig)
  /\ jsonText = Stringify(editableConfig)
  /\ JSONparse(jsonText) # DeepCopy(LoadDoc(renovateConfig))

\* q without its element at the 0-based position index
WithoutIndex(q, index) ==
  [i \in 1..(Len(q) - 1) |-> IF i <= index THEN q[i] ELSE q[i + 1]]

\* rule has the fixed fields at their defaults and no other key
AllDefaults(rule) ==
  /\ IsObject(rule)
  /\ \A key \in KeySet(rule) : IsRuleField(key)
  /\ \A i \in 1..Len(RuleFields) : Get(rule, RuleFields[i]) = RuleFieldDefault(RuleFields[i])

\* C23: AddPackageRule appends exactly one rule, with every fixed field at its
\* default, after the existing rules and leaves them and every other key of
\* the document as they were; RemovePackageRule(index) with an index of an
\* existing rule removes that rule only: the rules before it stay, the later
\* ones move down one place in their order, every other key is as it was.
C23_AddAndRemovePackageRule ==
  [][/\ AddPackageRule =>
          /\ Len(Rules(editableConfig')) = Len(Rules(editableConfig)) + 1
          /\ SubSeq(Rules(editableConfig'), 1, Len(Rules(editableConfig))) = Rules(editableConfig)
          /\ AllDefaults(Rules(editableConfig')[Len(Rules(editableConfig'))])
          /\ SameButKey(editableConfig, editableConfig', "packageRules")
     /\ \A index \in 0..(Len(Rules(editableConfig)) - 1) :
          RemovePackageRule(index) =>
            /\ Rules(editableConfig') = WithoutIndex(Rules(editableConfig), index)
            /\ SameButKey(editableConfig, editableConfig', "packageRules")]_vars

\* two edits after a document with one rule named 'g' was loaded the only
\* rule is one with all defaults, as AddPackageRule followed by
\* RemovePackageRule(0) leaves it
C23_Witness ==
  /\ mounted
  /\ edits = 2
  /\ Len(Rules(LoadDoc(renovateConfig))) = 1
  /\ Get(Rules(LoadDoc(renovateConfig))[1], "groupName") = JStr("g")
  /\ Len(Rules(editableConfig)) = 1
  /\ AllDefaults(Rules(editableConfig)[1])

\* the sub-document addManagerConfiguration creates: no file patterns
EmptyManagerSection == JObj(<<Kid("managerFilePatterns", JArr(<<>>))>>)

\* C24: AddManager over the selected name creates a manager sub-document with
\* no file patterns, every other key as it was, only when the name is not
\* empty and the document has no sub-document under it; with a sub-document
\* there already, or with the empty name, the document (the existing file
\* patterns with it) is unchanged.  RemoveManager deletes the manager's key
\* and leaves every other key, its value and its place as they were.
C24_AddAndRemoveManager ==
  [][/\ AddManagerConfiguration =>
          IF newManager # "" /\ ~Truthy(Get(editableConfig, newManager))
          THEN /\ Get(editableConfig', newManager) = EmptyManagerSection
               /\ SameButKey(editableConfig, editableConfig', newManager)
          ELSE editableConfig' = editableConfig
     /\ \A manager \in ManagerChoices :
          RemoveManager(manager) =>
            /\ ~Has(editableConfig', manager)
            /\ Keys(editableConfig') = SeqFilter(Keys(editableConfig), LAMBDA k : k # manager)
            /\ \A k \in KeySet(editableConfig') : Get(editableConfig', k) = Get(editableConfig, k)]_vars

\* AddManager('npm') was clicked over a document that has an npm section with
\* a file pattern: the section is as it was loaded
C24_Witness ==
  /\ mounted
  /\ edits = 1
  /\ newManager = "npm"
  /\ editableConfig = LoadDoc(renovateConfig)
  /\ Get(editableConfig, "npm") = JObj(<<Kid("managerFilePatterns", JArr(<<JStr("a")>>))>>)

\* the top-level keys of doc but packageRules, in their order
OtherKeys(doc) == SeqFilter(Keys(doc), LAMBDA k : k # "packageRules")

\* out has the top-level fields of doc outside packageRules: the same keys in
\* the same order, each with the same value
SameOtherFields(doc, out) ==
  /\ OtherKeys(out) = OtherKeys(doc)
  /\ \A i \in 1..Len(OtherKeys(doc)) : Get(out, OtherKeys(doc)[i]) = Get(doc, OtherKeys(doc)[i])

\* C25: Export leaves every top-level field other than packageRules as it is
\* in the working document: the exported document, and the exported text read
\* back, have the same keys with the same values, empty strings and empty
\* lists included.
C25_ExportKeepsOtherFields ==
  mounted =>
    /\ SameOtherFields(editableConfig, cleanConfig(editableConfig))
    /\ SameOtherFields(editableConfig, JSONparse(ExportText(editableConfig)))
    /\ output.kind = "clipboard" => SameOtherFields(editableConfig, JSONparse(output.text))

\* a document whose labels hold one empty string next to another top-level
\* field was copied: the copy has labels [''] and the other field
C25_Witness ==
  /\ output.kind = "clipboard"
  /\ Get(editableConfig, "labels") = JArr(<<JStr("")>>)
  /\ Get(JSONparse(output.text), "labels") = JArr(<<JStr("")>>)
  /\ Len(OtherKeys(editableConfig)) > 1

\* C26: in every state in which the editor is shown the working document is a
\* JSON object: never null, a list or a scalar.
C26_WorkingDocumentIsObject == mounted => IsObject(editableConfig)

\* C27: Export, to the clipboard or as a download, is a pure read of the
\* working document: the step changes neither the working document nor the
\* raw text nor the view mode, and what it writes is the serialization of the
\* cleaned working document, the same for both, whatever the textarea holds:
\* raw text not applied by a successful Apply Changes is not in it.
C27_ExportIsPureRead ==
  /\ [](output.kind \in {"clipboard", "download"} =>
          output.text = Stringify(cleanConfig(editableConfig)))
  /\ [][(output'.kind \in {"clipboard", "download"} /\ (copyToClipboard \/ downloadConfig)) =>
          UNCHANGED <<editableConfig, jsonText, viewMode, renovateConfig>>]_vars

\* a download taken in the raw-text view while the textarea holds typed text
\* that was not applied: the download is not that text
C27_Witness ==
  /\ output.kind = "download"
  /\ viewMode = "json"
  /\ jsonText \in TypedTexts
  /\ jsonText # Stringify(editableConfig)
  /\ output.text # jsonText
  /\ output.text = Stringify(cleanConfig(editableConfig))

\* C28: in every state of the host view an error message that is not empty
\* and a document are never there together: while an error is shown there is
\* no document and no editor, and while there is a document no error is shown.
C28_ErrorOrDocument ==
  /\ ErrorShown => (renovateConfig = JNull /\ ~mounted)
  /\ (Truthy(renovateConfig) \/ mounted) => ~ErrorShown

\* a resolve went out to fetch and failed: its error is shown, and there is
\* neither a document nor an editor
C28_Witness ==
  /\ ErrorShown
  /\ pc = "idle"
  /\ Len(fetched) >= 1
  /\ renovateConfig = JNull
  /\ ~mounted

\* C29: a resolve that sets the loading flag clears it in the end, every
\* awaited fetch returning or failing; the flag, in the form and in the host
\* view, is set exactly while a resolve is in flight, and the editor is not
\* shown while it is set.
C29_LoadingEnds ==
  /\ [](/\ isLoading <=> pc = "fetching"
        /\ hostLoading <=> isLoading
        /\ hostLoading => ~mounted)
  /\ (isLoading ~> ~isLoading)

\* a resolve that fetched at least two candidates has ended and the flag is
\* cleared, with a document or with an error
C29_Witness ==
  /\ pc = "idle"
  /\ ~isLoading
  /\ ~hostLoading
  /\ Len(fetched) >= 2

\* C30: at most one resolve is in flight: while one is, the URL field and the
\* Load button are disabled, so no step taken then is a submit of the form,
\* and its fetches go out one after the other over the candidates the resolve
\* started with, until it ends.
C30_OneResolveAtATime ==
  /\ [](pc = "fetching" => (isLoading /\ ~FormEnabled))
  /\ [][pc = "fetching" =>
          /\ ~Submit(url')
          /\ pc' = "fetching" =>
               /\ url' = url
               /\ urlsToTry' = urlsToTry
               /\ \/ (tryIndex' = tryIndex /\ fetched' = fetched)
                  \/ (tryIndex' = tryIndex + 1 /\ fetched' = Append(fetched, tryIndex'))]_vars

\* a resolve is at its third candidate, the form disabled
C30_Witness ==
  /\ pc = "fetching"
  /\ ~FormEnabled
  /\ tryIndex = 3
  /\ fetched = <<1, 2, 3>>

====
